---- MODULE Spec2Model ----
(***************************************************************************)
(* A model of interactions.ext.argtask: one Task (callback + trigger +     *)
(* background loop) and the TaskManager registry in front of it, running   *)
(* on a cooperative asyncio event loop.  One action is one uninterrupted   *)
(* run of code: a whole call of a public method, or one step of an asyncio *)
(* task between two suspension points.                                     *)
(***************************************************************************)
EXTENDS Integers, Sequences, FiniteSets, TLC

\* ---------------------------------------------------------------- bounds
MaxLoops == 2       \* loops (asyncio tasks running _task_loop) ever created
MaxFires == 2       \* fire times a trigger yields before it is exhausted

\* ------------------------------------------------------------- constants
Triggers == {"T1", "T2"}          \* the trigger objects that exist
None == "None"
Keys == {"k1", "k0"}              \* identities a caller may pass to the manager
\* What one action did to the Task's collaborators and its caller: the trigger
\* next_fire() was queried on, the trigger and time of set_last_call_time(), the
\* triggers reschedule() was invoked on, the exception that reached the caller,
\* the errors handed to the error sink and to the logger, the key or Trigger
\* returned.
Event == [queried |-> None, setLast |-> <<>>, resched |-> <<>>, raised |-> None,
          sink |-> 0, logged |-> 0, ret |-> None]

VARIABLES
    eventLoop,      \* TRUE while an asyncio event loop is running
    trigger,        \* Task.trigger
    budget,         \* per trigger: how many next_fire() queries yield a time
    asked,          \* per trigger: next_fire() queries the loops have made that yielded a time
    stopEvent,      \* Task._stop (asyncio.Event flag)
    task,           \* Task.task: 0 for None, else the slot of the loop
    iteration,      \* Task.iteration
    uuid,           \* Task.uuid
    loops,          \* the asyncio tasks created for _task_loop, by slot
    leakedPending,  \* _stop.wait() tasks left behind by a loop, waiting on the event
    inFlight,       \* callback invocations (Task.__call__) launched and not finished
    tasks,          \* TaskManager.tasks (the keys; each maps to the Task)
    ev              \* observation: what the last action did

vars == <<eventLoop, trigger, budget, asked, stopEvent, task, iteration,
          uuid, loops, leakedPending, inFlight,
          tasks, ev>>

\* ---------------------------------------------------- trigger (contract)
\* BaseTrigger.next_fire(): a time, or None when the schedule is exhausted.
\* A time is named by the trigger that computed it and the query's number.
next_fire(t) ==
    IF asked[t] < budget[t] THEN <<t, asked[t] + 1>> ELSE None

\* --------------------------------------------------------- asyncio tasks
\* The slots of loops, in creation order; a slot not yet used holds NoLoop.
Slots == 1..MaxLoops

NoLoop ==
    [pc |-> "none", cancelled |-> FALSE, timerFired |-> FALSE, futWake |-> FALSE,
     fut |-> "none", fireTime |-> None]

\* A loop task that create_task() has just made: scheduled, body not entered.
NewLoop ==
    [pc |-> "new", cancelled |-> FALSE, timerFired |-> FALSE, futWake |-> FALSE,
     fut |-> "none", fireTime |-> None]

DoneLoop ==
    [pc |-> "done", cancelled |-> FALSE, timerFired |-> FALSE, futWake |-> FALSE,
     fut |-> "none", fireTime |-> None]

\* asyncio.Task.done() of loop i
LoopDone(i) == loops[i].pc = "done"
Created(ls) == {i \in Slots : ls[i].pc # "none"}
Live == {i \in Created(loops) : loops[i].pc # "done"}

\* ------------------------------------------------------ Task properties
started == task # 0
running == task # 0 /\ ~LoopDone(task)
done == task # 0 /\ LoopDone(task)
next_run == IF running THEN next_fire(trigger) ELSE None

\* ------------------------------------------------------------ Task.stop
\* asyncio.Event.set(): every task waiting on the event is woken.
set(ls) ==
    [j \in Slots |->
        IF ls[j].fut = "pending" THEN [ls[j] EXCEPT !.fut = "woken"] ELSE ls[j]]

\* A cancel() that is lost when the timeout has already released the loop.
cancel_unless_released(cs, h) ==
    IF h # 0 /\ cs[h].pc \in {"new", "wait"} /\ ~cs[h].timerFired
    THEN [cs EXCEPT ![h].cancelled = TRUE] ELSE cs

\* A cancel() that also marks a finished task.
cancel_finished(cs, h) ==
    IF h # 0 THEN [cs EXCEPT ![h].cancelled = TRUE] ELSE cs

\* asyncio.Task.cancel() on the handle h: a finished task ignores it; otherwise
\* CancelledError is thrown into the coroutine at its next step, whether its
\* waiter was still pending (the waiter is cancelled) or had its result already
\* (the task's _must_cancel flag).
cancel(cs, h) ==
    IF h # 0 /\ cs[h].pc \in {"new", "wait"} THEN [cs EXCEPT ![h].cancelled = TRUE] ELSE cs

\* A stop() that only sets the event.
stopped_without_cancel(ls, h) == set(ls)

\* A stop() that neither wakes nor cancels anything.
stopped_nothing(ls, h) == ls

\* The loops after Task.stop(): self._stop.set(); if self.task: self.task.cancel()
stopped(ls, h) == cancel(set(ls), h)

\* Loops that can still run their body: not finished, no cancellation pending.
Effective == {i \in Live : ~loops[i].cancelled}

\* A create_task() that never fails.
NeverNoRunningLoop == FALSE

\* asyncio.create_task() raises RuntimeError when no event loop is running.
NoRunningLoop == ~eventLoop

\* Task.stop()
stop ==
    /\ stopEvent' = TRUE
    /\ loops' = stopped(loops, task)
    /\ leakedPending' = 0
    /\ ev' = Event
    /\ UNCHANGED <<eventLoop, trigger, budget, asked, task, iteration, uuid,
                   inFlight, tasks>>

\* The slot the next loop created goes to.
NextSlot == Cardinality(Created(loops)) + 1

\* The part of start() and restart() after the loops ls were left by what came
\* before: trigger.reschedule(); self._stop.clear(); self.task = create_task(...),
\* and the except clause that logs the RuntimeError of create_task().
launch(ls) ==
    /\ stopEvent' = FALSE
    /\ IF NoRunningLoop
         THEN /\ loops' = ls
              /\ task' = task
              /\ ev' = [Event EXCEPT !.resched = <<trigger>>, !.logged = 1]
         ELSE /\ NextSlot <= MaxLoops
              /\ loops' = [ls EXCEPT ![NextSlot] = NewLoop]
              /\ task' = NextSlot
              /\ ev' = [Event EXCEPT !.resched = <<trigger>>]

\* Task.start()
start ==
    /\ launch(loops)
    /\ UNCHANGED <<eventLoop, trigger, budget, asked, iteration, uuid,
                   leakedPending, inFlight,
                   tasks>>

\* Task.restart(): self.stop(); self.start(*args, **kwargs)
restart ==
    /\ launch(stopped(loops, task))
    /\ leakedPending' = 0
    /\ UNCHANGED <<eventLoop, trigger, budget, asked, iteration, uuid,
                   inFlight, tasks>>

\* What Task.reschedule() raises: its last line reads the names args and kwargs,
\* which are neither parameters nor globals, so it raises NameError before
\* restart() is called.
RescheduleRaises == "NameError"

\* Task.reschedule(t)
reschedule(t) ==
    /\ trigger' = t
    /\ ev' = [Event EXCEPT !.raised = RescheduleRaises]
    /\ UNCHANGED <<eventLoop, budget, asked, stopEvent, task, iteration,
                   uuid, loops, leakedPending, inFlight, tasks>>

\* ------------------------------------------------------ Task._task_loop
\* A loop that keeps using the trigger the Task was made with.
LoopTrigger_first == "T1"

\* The trigger a loop uses: self.trigger, read anew at every use.
LoopTrigger == trigger

\* A loop that takes None for a fire time.
Exhausted_never(t) == FALSE

\* `fire_time is None`: the trigger t has no further fire time.
Exhausted(t) == next_fire(t) = None

\* `future in done` after asyncio.wait() returns: the _stop.wait() task finished.
FutureInDone(l) == l.fut = "done"

\* A fire that does not count.
Incremented_not(n) == n

\* self.iteration += 1
Incremented(n) == n + 1

\* A fire that records the time of the query that follows it.
FiredTime_next(l) == <<trigger, asked[trigger] + 1>>

\* The fire_time handed to _fire(): the local the loop l bound at its last
\* next_fire() query, before it waited.
FiredTime(l) == l.fireTime

\* A loop that is not run while an invocation of the callback is in flight.
Ready_idle(i) ==
    /\ inFlight = 0
    /\ \/ loops[i].pc = "new"
       \/ /\ loops[i].pc = "wait"
          /\ loops[i].fut # "new"
          /\ loops[i].cancelled \/ loops[i].timerFired \/ loops[i].futWake

\* The event loop can run loop i: it was just created, or it is suspended in
\* asyncio.wait() and its waiter was released (timeout, or the _stop.wait() task
\* finished) or cancelled.  The event loop runs what is scheduled in the order
\* it was scheduled, so the first step of the _stop.wait() task, scheduled by
\* the loop itself, comes before any later wake-up of the loop.
Ready(i) ==
    \/ loops[i].pc = "new"
    \/ /\ loops[i].pc = "wait"
       /\ loops[i].fut # "new"
       /\ loops[i].cancelled \/ loops[i].timerFired \/ loops[i].futWake

\* One step of loop i, from where it is suspended to its next suspension or end:
\* CancelledError ends it; a finished _stop.wait() ends it; otherwise it fires
\* (when it comes from the wait), tests the stop event, queries the trigger, and
\* either stops the Task (exhausted) or starts the next wait.
LoopStep(i) ==
    /\ eventLoop
    /\ Ready(i)
    /\ LET l == loops[i]
           fires == ~l.cancelled /\ l.pc = "wait" /\ ~FutureInDone(l)
           enters == ~l.cancelled /\ (l.pc = "new" \/ fires)
           t == LoopTrigger
           exhausted == enters /\ ~stopEvent /\ Exhausted(t)
           waits == enters /\ ~stopEvent /\ ~Exhausted(t)
           lpend == IF l.fut = "pending" THEN 1 ELSE 0
       IN
       /\ inFlight' = IF fires THEN inFlight + 1 ELSE inFlight
       /\ iteration' = IF fires THEN Incremented(iteration) ELSE iteration
       /\ asked' = IF waits THEN [asked EXCEPT ![t] = @ + 1] ELSE asked
       /\ stopEvent' = (stopEvent \/ exhausted)
       /\ leakedPending' = IF exhausted THEN 0 ELSE leakedPending + lpend
       /\ loops' =
            IF waits
            THEN [loops EXCEPT ![i] = [pc |-> "wait", cancelled |-> FALSE,
                     timerFired |-> FALSE, futWake |-> FALSE, fut |-> "new",
                     fireTime |-> next_fire(t)]]
            ELSE IF exhausted
            THEN [stopped(loops, task) EXCEPT ![i] = DoneLoop]
            ELSE [loops EXCEPT ![i] = DoneLoop]
       /\ ev' = [Event EXCEPT
                    !.queried = IF waits \/ exhausted THEN t ELSE None,
                    !.setLast = IF fires THEN <<trigger, FiredTime(l)>> ELSE <<>>]
    /\ UNCHANGED <<eventLoop, trigger, budget, task, uuid, tasks>>

\* The timeout of loop i's asyncio.wait() elapses: the waiter gets its result,
\* unless it has one already or was cancelled.  A timeout comes after what was
\* scheduled before it: the _stop.wait() task has registered its waiter, and
\* when the event has woken that task the task finishes first (StopWaitStep).
TimerElapse(i) ==
    /\ eventLoop
    /\ loops[i].pc = "wait"
    /\ loops[i].fut = "pending"
    /\ ~loops[i].timerFired /\ ~loops[i].cancelled
    /\ loops' = [loops EXCEPT ![i].timerFired = TRUE]
    /\ ev' = Event
    /\ UNCHANGED <<eventLoop, trigger, budget, asked, stopEvent, task,
                   iteration, uuid, leakedPending, inFlight, tasks>>

\* One step of the task `future` (self._stop.wait()) that loop i is waiting on:
\* its first step returns at once when the event is set and else registers a
\* waiter; woken by set(), it finishes and its done callback releases the loop.
\* A loop the timeout has released already runs before a task woken after that.
StopWaitStep(i) ==
    /\ eventLoop
    /\ loops[i].pc = "wait"
    /\ \/ loops[i].fut = "new"
       \/ loops[i].fut = "woken" /\ ~loops[i].timerFired
    /\ loops' =
         IF loops[i].fut = "new" /\ ~stopEvent
         THEN [loops EXCEPT ![i].fut = "pending"]
         ELSE [loops EXCEPT ![i].fut = "done", ![i].futWake = TRUE]
    /\ ev' = Event
    /\ UNCHANGED <<eventLoop, trigger, budget, asked, stopEvent, task,
                   iteration, uuid, leakedPending, inFlight, tasks>>

\* -------------------------------------------------------- Task.__call__
\* What a callback invocation can end with: it returns nothing, returns a
\* Trigger, or raises an exception.
Outcomes == {"none", "raise"} \cup Triggers

\* An invocation that swallows what it catches.
Caught_swallowed(o) == 0

\* Errors Task.__call__ hands to on_error for an invocation ending with o: the
\* callback's own exception, or the one reschedule() raises on a returned Trigger.
Caught(o) ==
    IF o = "raise" \/ (o \in Triggers /\ RescheduleRaises # None) THEN 1 ELSE 0

\* An invocation whose returned Trigger is dropped once the Task was stopped.
finish_unless_stopped(o) ==
    /\ trigger' = IF o \in Triggers /\ ~stopEvent THEN o ELSE trigger
    /\ ev' = [Event EXCEPT !.sink = Caught(o),
                           !.ret = IF o \in Triggers THEN o ELSE None]

\* The end of an invocation with outcome o: a returned Trigger goes to
\* reschedule(), which stores it before it raises; every exception is caught
\* and handed to on_error.
finish(o) ==
    /\ trigger' = IF o \in Triggers THEN o ELSE trigger
    /\ ev' = [Event EXCEPT !.sink = Caught(o),
                           !.ret = IF o \in Triggers THEN o ELSE None]

\* An invocation in flight ends.  A synchronous callback ends in the step that
\* starts it, an asynchronous one whenever what it awaits lets it; one that never
\* returns stays in flight.
CallEndWith(o) ==
    /\ eventLoop
    /\ inFlight > 0
    /\ inFlight' = inFlight - 1
    /\ finish(o)
    /\ UNCHANGED <<eventLoop, budget, asked, stopEvent, task, iteration,
                   uuid, loops, leakedPending, tasks>>

CallEnd == \E o \in Outcomes : CallEndWith(o)

\* ---------------------------------------------------------- TaskManager
\* A lookup that finds a Task under every key.
get_task_any(k) == "task"

\* TaskManager.get_task(k): dict.get, None for a key that is absent.
get_task(k) == IF k \in tasks THEN "task" ELSE None

\* A call that finds nothing to do.
skip ==
    /\ ev' = Event
    /\ UNCHANGED <<eventLoop, trigger, budget, asked, stopEvent, task,
                   iteration, uuid, loops, leakedPending, inFlight, tasks>>

\* A manager that stores nothing.
Registered_not(ts, k) == ts

\* self.tasks[task_uuid] = task: the mapping with the key k bound to the Task.
Registered(ts, k) == ts \cup {k}

\* TaskManager.add_task(task)
add_task ==
    /\ tasks' = Registered(tasks, uuid)
    /\ ev' = [Event EXCEPT !.ret = uuid]
    /\ UNCHANGED <<eventLoop, trigger, budget, asked, stopEvent, task,
                   iteration, uuid, loops, leakedPending, inFlight>>

start_task(k) ==
    IF get_task(k) # None THEN start ELSE skip

stop_task(k) ==
    IF get_task(k) # None THEN stop ELSE skip

restart_task(k) ==
    IF get_task(k) # None THEN restart ELSE skip

reschedule_task(k, t) ==
    IF get_task(k) # None THEN reschedule(t)
    ELSE skip

\* ------------------------------------------------------------ the system
\* An event loop starts running (asyncio.run, or the host client's startup).
RunEventLoop ==
    /\ ~eventLoop
    /\ eventLoop' = TRUE
    /\ ev' = Event
    /\ UNCHANGED <<trigger, budget, asked, stopEvent, task, iteration,
                   uuid, loops, leakedPending, inFlight, tasks>>

\* The schedules tried: the triggers yield MaxFires fire times together.
Schedules == {b \in [Triggers -> 0..MaxFires] : b["T1"] + b["T2"] = MaxFires}

\* What Task.__init__ raises: its last line reads the name uuid, which the
\* module never imports, so it raises NameError after every other attribute
\* was set.
InitRaises == "NameError"

\* Task.__init__ and TaskManager.__init__, before any event loop runs.  The
\* schedules of the triggers are the input.  The Task is followed as it is
\* once the name uuid is bound in the module and the identity was assigned.
Init ==
    /\ eventLoop = FALSE
    /\ trigger = "T1"
    /\ budget \in Schedules
    /\ asked = [t \in Triggers |-> 0]
    /\ stopEvent = FALSE
    /\ task = 0
    /\ iteration = 0
    /\ uuid = "k1"
    /\ loops = [i \in Slots |-> NoLoop]
    /\ leakedPending = 0
    /\ inFlight = 0
    /\ tasks = {}
    /\ ev = [Event EXCEPT !.raised = InitRaises]

Reschedule == \E t \in Triggers : reschedule(t)
StartTask == \E k \in Keys : start_task(k)
StopTask == \E k \in Keys : stop_task(k)
RestartTask == \E k \in Keys : restart_task(k)
RescheduleTask == \E k \in Keys, t \in Triggers : reschedule_task(k, t)
Loop == \E i \in Slots : LoopStep(i)
Timer == \E i \in Slots : TimerElapse(i)
StopWait == \E i \in Slots : StopWaitStep(i)

\* The steps of the event loop: the loops, their timers and stop waiters, and
\* the callback invocations.
Run ==
    \/ Loop
    \/ Timer
    \/ StopWait
    \/ CallEnd

\* Callers that hold the Task and call its methods.
Next ==
    \/ RunEventLoop
    \/ start
    \/ stop
    \/ restart
    \/ Reschedule
    \/ Run

Spec == Init /\ [][Next]_vars

\* Callers that hold the key of the Task and go through the TaskManager.
ManagerNext ==
    \/ RunEventLoop
    \/ add_task
    \/ StartTask
    \/ StopTask
    \/ RestartTask
    \/ RescheduleTask
    \/ Run

ManagerSpec == Init /\ [][ManagerNext]_vars

\* A caller that starts the Task once and may stop it; callbacks may still
\* return Triggers.  The event loop runs every task that is ready, and every
\* timeout elapses.
OnceNext ==
    \/ RunEventLoop
    \/ task = 0 /\ start
    \/ stop
    \/ Run

OnceSpec ==
    /\ Init
    /\ [][OnceNext]_vars
    /\ \A i \in Slots :
         WF_vars(LoopStep(i)) /\ WF_vars(TimerElapse(i)) /\ WF_vars(StopWaitStep(i))

\* The same caller, with an event loop that runs every task that is ready but
\* timeouts that may never elapse: what happens then does not wait for a timer.
PromptSpec ==
    /\ Init
    /\ [][OnceNext]_vars
    /\ \A i \in Slots : WF_vars(LoopStep(i)) /\ WF_vars(StopWaitStep(i))

\* ================================================================ claims
\* A step in which stop() is called: by a caller, or by a loop that found its
\* trigger exhausted.
StopCalled ==
    \/ stop
    \/ \E i \in Slots : LoopStep(i) /\ ~stopEvent /\ stopEvent'

\* A step of a loop that has a cancellation pending.
CancelledLoopStep == \E i \in Slots : loops[i].cancelled /\ LoopStep(i)

NoFire == iteration' = iteration /\ inFlight' <= inFlight

\* C1: after stop() on a Task whose only loop that can still run is the one in
\* the handle, no loop can run its body any more, and while that is so, and no
\* start or restart creates a loop, nothing is launched and iteration keeps its
\* value: wherever the loop was (new, waiting, released by its timeout).
C1_StopPreventsFiring ==
    [][ /\ (StopCalled /\ Effective \subseteq {task}) => Effective' = {}
        /\ (Effective = {} /\ Created(loops') = Created(loops))
              => (NoFire /\ Effective' = {})
        /\ CancelledLoopStep => NoFire ]_vars

\* C1 witness: stop() came when the timeout had already released the loop (the
\* tie of timer and stop), with a fire time still pending.
C1_Witness ==
    /\ task # 0
    /\ loops[task].pc = "wait"
    /\ loops[task].timerFired
    /\ loops[task].cancelled
    /\ loops[task].fireTime # None
    /\ stopEvent
    /\ Effective = {}

\* One loop was created, every fire time came from T1: at most K fires.
C2_Safety ==
    (Cardinality(Created(loops)) <= 1 /\ asked["T2"] = 0) => iteration <= budget["T1"]

\* A stopped Task stays stopped while its handle is the same.
C2_StaysStopped == (started /\ ~running /\ task' = task) => ~running'

\* C2: started once, with a trigger that yields K times (and no time asked of
\* another trigger), the Task fires at most K times; it then ends up stopped,
\* running false and next_run None, and stays so while the handle is the same.
C2_ExhaustedStops ==
    /\ []C2_Safety
    /\ [][C2_StaysStopped]_vars
    /\ (task # 0) ~> [](~running /\ next_run = None)

\* C2 witness: the trigger yielded all its K = MaxFires times, the loop fired
\* K times and the Task is stopped.
C2_Witness ==
    /\ budget["T1"] = MaxFires
    /\ asked["T1"] = MaxFires
    /\ iteration = MaxFires
    /\ started /\ ~running /\ next_run = None

\* C3 as claimed: in the state right after stop() returns, running is false.
C3_Original == [][stop => ~running']_vars

\* C3 amended: right after stop() returns the loop in the handle, when it has
\* not finished, has a cancellation pending, and its next step ends it without
\* a fire; running is false at once only when no loop was running.
C3_StopLeavesLoopCancelled ==
    [][ /\ stop => (task' = task /\ (~running' \/ loops'[task'].cancelled))
        /\ (stop /\ ~running) => ~running'
        /\ \A i \in Slots :
              (loops[i].cancelled /\ LoopStep(i)) => (loops'[i].pc = "done" /\ NoFire)
      ]_vars

\* C3 witness: stop() has returned and the loop, cancelled, has not run yet.
C3_Witness ==
    /\ stopEvent
    /\ running
    /\ loops[task].cancelled
    /\ ev = Event

\* C4 as claimed: reschedule(t) on a running Task raises nothing, stores t,
\* cancels the old loop, starts a new one held in the handle, invokes
\* t.reschedule(), and leaves iteration alone.
C4_RescheduleRestarts ==
    [][ \A t \in Triggers :
          (reschedule(t) /\ running) =>
             /\ ev'.raised = None
             /\ trigger' = t
             /\ loops'[task].cancelled \/ loops'[task].pc = "done"
             /\ task' # task
             /\ loops'[task'].pc = "new"
             /\ ev'.resched = <<t>>
             /\ iteration' = iteration ]_vars

\* C5 as claimed: at most one loop that can still run exists for the Task.
C5_AtMostOneLoop == Cardinality(Effective) <= 1

\* C6: an invocation that returns a Trigger T stores T, and every next_fire()
\* query of a loop is made on the trigger stored at that time: after the return
\* the queries go to T and not to the trigger stored before.
C6_QueriesFollowReturnedTrigger ==
    [][ /\ \A o \in Triggers : CallEndWith(o) => (trigger' = o /\ ev'.ret = o)
        /\ \A i \in Slots : LoopStep(i) => ev'.queried \in {None, trigger} ]_vars

\* C6 witness: a loop has queried T2, which only a callback's return stores
\* when the caller never reschedules.
C6_Witness == ev.queried = "T2" /\ trigger = "T2" /\ iteration > 0

\* C7: an invocation that raises hands one error to the error sink, raises
\* nothing to anyone, and changes nothing the loop is or reads: the loops, the
\* trigger, the stop event, the handle, the trigger's schedule, iteration.
C7_RaiseLeavesLoopAlone ==
    [][ CallEndWith("raise") =>
           /\ ev'.sink = 1
           /\ ev'.raised = None
           /\ loops' = loops
           /\ trigger' = trigger
           /\ stopEvent' = stopEvent
           /\ task' = task
           /\ asked' = asked
           /\ iteration' = iteration ]_vars

\* C7 witness: an invocation has just raised while the loop waits for a further
\* fire time of its trigger.
C7_Witness ==
    /\ ev.sink = 1 /\ ev.ret = None
    /\ iteration > 0
    /\ running
    /\ loops[task].pc = "wait" /\ ~loops[task].cancelled
    /\ loops[task].fireTime # None

\* C8: iteration starts at 0; a step changes it only by adding 1, exactly when
\* the step launches an invocation, and only a loop's step does.
C8_IterationCounts ==
    /\ iteration = 0
    /\ [][ /\ iteration' \in {iteration, iteration + 1}
           /\ (iteration' = iteration + 1) <=> (inFlight' = inFlight + 1)
           /\ (iteration' # iteration) => \E i \in Slots : LoopStep(i) ]_vars

\* C8 witness: the Task fired twice, was restarted and stopped, an invocation
\* ended with an error, and iteration is still 2.
C8_Witness ==
    /\ iteration = 2
    /\ Cardinality(Created(loops)) > 1
    /\ stopEvent
    /\ ev.sink = 1

\* C9: restart() on a running Task whose only loop that can run is the handle's:
\* the old loop gets a cancellation pending, one new loop is created and held in
\* the handle, reschedule() is invoked once on the trigger, the stop event is
\* clear again, only the new loop can run; and a loop with a cancellation
\* pending ends at its next step and launches nothing.
C9_RestartReplacesLoop ==
    [][ /\ (restart /\ ~NoRunningLoop /\ running /\ Effective = {task}) =>
             /\ loops'[task].cancelled
             /\ Created(loops') = Created(loops) \cup {task'}
             /\ task' \notin Created(loops)
             /\ loops'[task'] = NewLoop
             /\ ev'.resched = <<trigger>>
             /\ ~stopEvent'
             /\ Effective' = {task'}
        /\ \A i \in Slots :
              (loops[i].cancelled /\ LoopStep(i)) => (loops'[i].pc = "done" /\ NoFire)
      ]_vars

\* C9 witness: after restart() the stop event is clear, the old loop, released
\* by its timeout, has its cancellation pending, and the new loop is in the handle.
C9_Witness ==
    /\ task = 2
    /\ ~stopEvent
    /\ loops[1].pc = "wait" /\ loops[1].cancelled /\ loops[1].timerFired
    /\ loops[2] = NewLoop
    /\ ev.resched # <<>>

\* While the handle is None there is no loop, no invocation, no fire.
C10_NotStarted == task = 0 => (Created(loops) = {} /\ inFlight = 0 /\ iteration = 0)

\* C10: start() on a never-started Task with no event loop running raises
\* nothing, logs one error and leaves the Task not started; and as long as the
\* handle is None there is no loop, no invocation and iteration is 0.
C10_StartWithoutEventLoop ==
    /\ []C10_NotStarted
    /\ [][ (start /\ task = 0 /\ ~eventLoop) =>
              /\ ev'.raised = None
              /\ ev'.logged = 1
              /\ task' = 0 /\ ~started' /\ ~running'
              /\ loops' = loops ]_vars

\* C10 witness: start() has failed and been logged; the Task is not started.
C10_Witness == ev.logged = 1 /\ task = 0 /\ ~eventLoop /\ ~started /\ ~running

\* C11: add_task returns the Task's identity and stores the Task under it, and
\* no call of the manager, no step of a loop, no stop and no exhaustion takes
\* a key out of the mapping: get_task(k) keeps returning the Task; the Task's
\* identity stays what it was.
C11_RegisteredForGood ==
    [][ /\ add_task => (ev'.ret = uuid /\ uuid \in tasks' /\ get_task(uuid)' = "task")
        /\ \A k \in Keys : get_task(k) = "task" => get_task(k)' = "task"
        /\ uuid' = uuid ]_vars

\* C11 witness: the Task was added, started through the manager, fired, found
\* its trigger exhausted and stopped itself, and is still registered.
C11_Witness ==
    /\ get_task(uuid) = "task"
    /\ done /\ stopEvent
    /\ iteration = MaxFires
    /\ next_fire(trigger) = None

\* C12: for a key that is not in the manager get_task returns None, and
\* start_task, stop_task and restart_task raise nothing, log nothing, and leave
\* the mapping and every part of the registered Task's state as they were.
C12_UnknownIdentityNoOp ==
    /\ [](\A k \in Keys \ tasks : get_task(k) = None)
    /\ [][ \A k \in Keys \ tasks :
              (start_task(k) \/ stop_task(k) \/ restart_task(k)) =>
                 /\ ev' = Event
                 /\ UNCHANGED <<tasks, trigger, asked, stopEvent, task, iteration,
                                uuid, loops, leakedPending, inFlight>> ]_vars

\* C12 witness: the Task is registered and runs with an invocation in flight,
\* the key "k0" is unknown, and the last call did and reported nothing.
C12_Witness ==
    /\ tasks = {"k1"}
    /\ get_task("k0") = None
    /\ running /\ inFlight > 0 /\ ~stopEvent
    /\ loops[task].pc = "wait" /\ ~loops[task].cancelled
    /\ ev = Event

\* C13 as claimed: Task(callback, trigger) raises nothing and leaves a Task
\* with the given trigger, iteration 0, no handle (started, running and done
\* all false) and an identity that never changes.
C13_ConstructionSucceeds ==
    /\ ev.raised = None
    /\ trigger = "T1" /\ iteration = 0
    /\ ~started /\ ~running /\ ~done
    /\ [][uuid' = uuid]_vars

\* The state stop() leaves: the event set, every waiter woken, the handle's
\* loop, if not finished, with its cancellation pending.
AfterStop == stopEvent /\ leakedPending = 0 /\ stopped(loops, task) = loops

\* C14: stop() on a Task that is not running (no handle, or a finished loop in
\* it) raises nothing, launches nothing, creates no loop and leaves the handle,
\* the finished loop in it, the trigger and iteration as they were; and a
\* stop() called in the state a stop() left changes nothing.
C14_StopIdempotent ==
    [][ /\ (stop /\ ~running) =>
              /\ ev' = Event
              /\ NoFire
              /\ task' = task /\ trigger' = trigger /\ iteration' = iteration
              /\ Created(loops') = Created(loops)
              /\ task # 0 => loops'[task] = loops[task]
              /\ ~running'
        /\ stop => AfterStop'
        /\ (stop /\ AfterStop) =>
              /\ ev' = Event
              /\ UNCHANGED <<eventLoop, trigger, budget, asked, stopEvent, task,
                             iteration, uuid, loops, leakedPending, inFlight, tasks>>
      ]_vars

\* C14 witness: stop() was called on a Task that was never started, inside a
\* running event loop.
C14_Witness == task = 0 /\ stopEvent /\ eventLoop /\ ev = Event /\ AfterStop

\* The trigger stored in the Task when its loop was started, for a Task that is
\* started once by a caller that never reschedules: before the start nothing
\* has run that could replace the trigger the Task was made with.
StartTrigger == "T1"

\* C15 as claimed: a loop calls next_fire() and set_last_call_time() only on
\* the trigger that was stored when the loop was started.
C15_LoopKeepsItsTrigger ==
    [][ \A i \in Slots : LoopStep(i) =>
           /\ ev'.queried \in {None, StartTrigger}
           /\ ev'.setLast # <<>> => ev'.setLast[1] = StartTrigger ]_vars

\* C16: after stop() on a running Task that is not started again, the loop
\* ends at its next step, without a fire and whether or not its timeout ever
\* elapses: eventually done is true and running false, and they stay so.
C16_StopTerminatesLoop ==
    /\ [][ \A i \in Slots :
              (stopEvent /\ loops[i].cancelled /\ LoopStep(i)) =>
                 (LoopDone(i)' /\ iteration' = iteration) ]_vars
    /\ (stopEvent /\ running) ~> [](done /\ ~running)

\* C16 witness: the loop queried its trigger once and was waiting; it was
\* stopped before the fire and has finished with iteration still 0.
C16_Witness ==
    /\ done /\ ~running /\ stopEvent
    /\ iteration = 0
    /\ asked["T1"] = 1 /\ budget["T1"] = MaxFires

\* C17: a loop that starts a wait keeps the time its next_fire() query returned;
\* a fire is a step of a loop that was waiting, and in it set_last_call_time()
\* gets exactly the time that loop kept, one invocation is launched and
\* iteration grows by one; a loop that was waiting makes its next query only
\* in a step that did these three, and only then waits again.
C17_FireOrder ==
    [][ /\ \A i \in Slots :
              (LoopStep(i) /\ loops'[i].pc = "wait") =>
                 /\ ev'.queried = trigger
                 /\ loops'[i].fireTime = next_fire(trigger)
                 /\ loops'[i].fireTime # None
        /\ (iteration' # iteration) =>
              \E i \in Slots :
                 /\ LoopStep(i) /\ loops[i].pc = "wait"
                 /\ ev'.setLast = <<trigger, loops[i].fireTime>>
                 /\ inFlight' = inFlight + 1
                 /\ iteration' = iteration + 1
        /\ \A i \in Slots :
              (LoopStep(i) /\ loops[i].pc = "wait" /\ ev'.queried # None) =>
                 /\ ev'.setLast = <<trigger, loops[i].fireTime>>
                 /\ inFlight' = inFlight + 1
                 /\ iteration' = iteration + 1 ]_vars

\* C17 witness: the loop has fired the first time of its trigger, recorded it,
\* launched the invocation, counted it, queried again and waits for the second.
C17_Witness ==
    /\ running
    /\ ev.setLast = <<"T1", <<"T1", 1>>>>
    /\ ev.queried = "T1"
    /\ iteration = 1 /\ inFlight = 1
    /\ loops[task].pc = "wait" /\ loops[task].fireTime = <<"T1", 2>>

\* The timeout of loop i's wait has elapsed and nothing has cancelled the loop.
Released(i) ==
    loops[i].pc = "wait" /\ loops[i].timerFired /\ ~loops[i].cancelled

\* C18: a loop whose timeout has elapsed can take its step however many
\* invocations are in flight, and the step fires: one more invocation is in
\* flight after it, next to those that have not returned.
C18_LoopNeverWaitsForCallback ==
    /\ [](\A i \in Slots : Released(i) => ENABLED LoopStep(i))
    /\ [][ \A i \in Slots :
              (Released(i) /\ LoopStep(i)) =>
                 (inFlight' = inFlight + 1 /\ iteration' = iteration + 1) ]_vars

\* C18 witness: the loop has fired at both times its trigger yielded and
\* neither invocation has returned: two are in flight at once.
C18_Witness ==
    /\ iteration = 2 /\ inFlight = 2
    /\ asked["T1"] = 2
    /\ Cardinality(Created(loops)) = 1

\* C19: stop() leaves the invocations in flight as they are; an invocation in
\* flight can end with any outcome whether or not the Task was stopped, and
\* one that returns a Trigger replaces the stored trigger then too.
C19_StopSparesInvocations ==
    /\ [](inFlight > 0 => \A o \in Outcomes : ENABLED CallEndWith(o))
    /\ [][ /\ stop => inFlight' = inFlight
           /\ \A o \in Triggers :
                 CallEndWith(o) => (trigger' = o /\ inFlight' = inFlight - 1) ]_vars

\* C19 witness: stop() has cancelled the loop, which has not run since, and an
\* invocation launched before the stop has returned T2, now the stored trigger.
C19_Witness ==
    /\ stopEvent
    /\ running /\ loops[task].cancelled
    /\ ev.ret = "T2" /\ trigger = "T2"
    /\ Cardinality(Created(loops)) = 1

\* The _stop.wait() tasks of the Task that wait on the event: those of the
\* waits in progress and those left behind by waits that have ended.
PendingWaiters ==
    leakedPending + Cardinality({i \in Live : loops[i].fut = "pending"})

\* C20 as claimed: a Task with one loop has at most one pending waiter on the
\* stop signal, however often it has fired.
C20_AtMostOnePendingWaiter ==
    Cardinality(Live) <= 1 => PendingWaiters <= 1

====
